---- MODULE Spec2Model ----
(***************************************************************************)
(* Model of the data analyst agent: the orchestration loop of              *)
(* DataAnalystAgent.run (agent.py) and the timeout-bounded execution of    *)
(* CodeExecutor.execute (executor.py).                                     *)
(*                                                                         *)
(* Spec      the orchestration loop; executor.execute is represented by    *)
(*           the outcomes it can have for its caller.                      *)
(* SpecExec  CodeExecutor.execute with its worker thread.                  *)
(***************************************************************************)
EXTENDS Integers, Sequences, FiniteSets, TLC

\* ------------------------------------------------------------------ bounds
MaxBudget == 2      \* max_iterations ranges over 0..MaxBudget
MaxTools == 2       \* tool_use blocks in one model turn
MaxToolUses == 3    \* tool_use blocks the model sends over one run
MaxCodeLen == 2     \* statements in one snippet
MaxCalls == 2       \* execute calls on one CodeExecutor
MaxRetries == 4     \* max_retries ranges over -1..MaxRetries
MaxSends == 2       \* send_message calls on one LLMClient
MaxRuns == 2        \* run calls on one DataAnalystAgent
MaxHalfWindows == 2  \* time.time() ranges over this many half windows

\* ------------------------------------------------------- values and strings
NONE == "<None>"          \* Python None
MISSING == "<missing>"    \* key absent from a tool_input mapping

\* A Python string built by an f-string is the sequence of its pieces.
StartsWith(s, prefix) == Len(s) > 0 /\ s[1] = prefix

SeqToSet(s) == {s[i] : i \in 1..Len(s)}

\* --------------------------------------------------------------- variables
VARIABLES
    max_iterations,   \* DataAnalystAgent.max_iterations
    messages,         \* DataAnalystAgent.messages
    figures,          \* DataAnalystAgent.figures
    iteration,        \* run: iteration
    final_summary,    \* run: final_summary
    response,         \* run: response of the last send_message
    tool_uses,        \* run: tool_uses of the current turn
    tool_results,     \* run: tool_results of the current turn
    next_tool,        \* run: position of the for loop over tool_uses
    pc,               \* run: control position
    ret,              \* run: returned value
    requests,         \* outcomes of the send_message calls made by run
    presenter,        \* calls received by the ResultPresenter
    \* CodeExecutor
    files,            \* *.png files in output_dir
    fignums,          \* plt.get_fignums(): the open figures
    df,               \* CodeExecutor.df
    figure_counter,   \* CodeExecutor._figure_counter
    code,             \* execute: the snippet
    figures_before,   \* execute: figures_before
    namespace_df,     \* execute: namespace["df"]
    namespace_user,   \* execute: the names the snippet has bound in namespace
    stdout_buffer,    \* execute: stdout_buffer
    result_container, \* execute: result_container["error"]
    future,           \* execute: state of the submitted future
    worker_ip,        \* worker thread: next statement of the snippet
    epc,              \* execute: control position of the calling thread
    result,           \* execute: the ExecutionResult returned
    calls,            \* number of execute calls started
    at_timeout,       \* execute: whether the timeout elapsed, and the text
                      \* buffered at that moment
    \* --- llm.py: one LLMClient
    max_retries,      \* self.max_retries
    attempt,          \* send_message: the loop variable
    create_calls,     \* send_message: outcome of each messages.create call
    sleeps,           \* send_message: the argument of each time.sleep call
    lpc,              \* send_message: position of the calling thread
    sent,             \* send_message: the value returned or the error raised
    sends,            \* number of send_message calls started
    \* --- app.py: the rate limiter of one session
    query_timestamps, \* st.session_state.query_timestamps
    clock,            \* time.time()
    recorded,         \* every timestamp record_query has appended
    analyses,         \* the analyses started after record_query
    rpc,              \* position of the script in the Analyze handler
    \* --- one script of model turns given to run and to the web loop
    script,           \* the model turns and the execution outcomes
    twin,             \* which of the two loops is running
    agent_messages,   \* DataAnalystAgent.messages when run returned
    agent_requests    \* the send_message calls run made

agentVars == <<max_iterations, messages, figures, iteration, final_summary,
               response, tool_uses, tool_results, next_tool, pc, ret,
               requests, presenter>>

execVars == <<files, fignums, df, figure_counter, code, figures_before,
              namespace_df, namespace_user, stdout_buffer, result_container,
              future, worker_ip, epc, result, calls, at_timeout>>

llmVars == <<max_retries, attempt, create_calls, sleeps, lpc, sent, sends>>

rateVars == <<query_timestamps, clock, recorded, analyses, rpc>>

twinVars == <<script, twin, agent_messages, agent_requests>>

vars == <<agentVars, execVars, llmVars, rateVars, twinVars>>

\* ============================================================ llm.py
\* format_tool_result
FormatToolResultWrongId(tool_use_id, content, is_error) ==
    [type |-> "tool_result", tool_use_id |-> <<0, 0>>,
     content |-> content, is_error |-> is_error]

FormatToolResult(tool_use_id, content, is_error) ==
    [type |-> "tool_result", tool_use_id |-> tool_use_id,
     content |-> content, is_error |-> is_error]

\* extract_tool_use: the (id, name, input) of the tool_use blocks, in order
ExtractToolUse(resp) == resp.content

\* extract_text
ExtractText(resp) == resp.text

\* -------------------------------------------------- what the model can send
\* tool_input of a tool_use block: the keys the handlers read
NoViz == [type |-> "missing", items |-> <<>>]
ListViz == [type |-> "list", items |-> <<[name |-> "chart", n |-> 0]>>]
StrViz == [type |-> "str", items |-> <<>>]

ToolVariants ==
    {[name |-> "execute_code", summary |-> MISSING, visualizations |-> NoViz],
     [name |-> "ask_clarifying_question", summary |-> MISSING, visualizations |-> NoViz],
     [name |-> "delete_rows", summary |-> MISSING, visualizations |-> NoViz]}
    \cup {[name |-> "present_results", summary |-> s, visualizations |-> NoViz] :
             s \in {MISSING, "", "Findings"}}
    \cup {[name |-> "present_results", summary |-> "Report", visualizations |-> v] :
             v \in {ListViz, StrViz}}

\* a turn without tool_use blocks
TextTurns ==
    {[text |-> t, stop_reason |-> s, content |-> <<>>] :
        t \in {"", "All done"}, s \in {"end_turn", "max_tokens"}}

\* a turn with 1..MaxTools tool_use blocks; ids are unique in the conversation
ToolTurns(it) ==
    UNION {{[text |-> "", stop_reason |-> "tool_use",
             content |-> [i \in 1..n |->
                 [id |-> <<it, i>>, name |-> f[i].name,
                  input |-> [summary |-> f[i].summary,
                             visualizations |-> f[i].visualizations]]]] :
              f \in [1..n -> ToolVariants]} : n \in 1..MaxTools}

ModelTurns(it) == TextTurns \cup ToolTurns(it)

\* the tool_use blocks received so far
RECURSIVE ToolUseCount(_)
ToolUseCount(msgs) ==
    IF msgs = <<>> THEN 0
    ELSE Len(Head(msgs).tool_use) + ToolUseCount(Tail(msgs))

\* ============================================================ executor.py
\* What CodeExecutor.execute can do for its caller.
ExecutionResult(success, output, error, figs) ==
    [success |-> success, output |-> output, error |-> error, figures |-> figs]

\* a *.png path in output_dir: figure_<n>.png (auto-saved) or a name the
\* snippet chose
Path(name, n) == [name |-> name, n |-> n]

ExecutionResults ==
    {ExecutionResult(TRUE, <<>>, NONE, <<>>),
     ExecutionResult(TRUE, <<"42">>, NONE, <<Path("plot", 0)>>),
     ExecutionResult(FALSE, <<>>, "ZeroDivisionError", <<>>)}

\* ============================================================ agent.py
InitialMessage == [role |-> "user", content |-> "initial_message",
                   tool_use |-> <<>>, tool_result |-> <<>>]

AssistantMessage(resp) == [role |-> "assistant", content |-> resp.text,
                           tool_use |-> resp.content, tool_result |-> <<>>]

ToolResultMessage(results) == [role |-> "user", content |-> "",
                               tool_use |-> <<>>, tool_result |-> results]

AppendTurnDroppingOldest(msgs, turn) ==
    IF msgs = <<>> THEN <<turn>> ELSE Tail(msgs) \o <<turn>>

\* self.messages.append(...), lines 45, 78, 106
AppendTurn(msgs, turn) == Append(msgs, turn)

Show(call, text, figs) == [call |-> call, text |-> text, figures |-> figs]

Shown(call) == \E i \in 1..Len(presenter) : presenter[i].call = call

\* while iteration < self.max_iterations
LoopGuardInclusive(it, max) == it <= max

LoopGuard(it, max) == it < max

\* if not tool_uses and response.stop_reason == "end_turn"
NaturalCompletion(uses, resp) == uses = <<>> /\ resp.stop_reason = "end_turn"

\* final_summary = text_content or "Analysis complete."
FinalTextNoDefault(text) == text

FinalText(text) == IF text # "" THEN text ELSE "Analysis complete."

\* tool_input.get("summary", "")
GetSummaryDefaultNone(input) == IF input.summary = MISSING THEN NONE ELSE input.summary

GetSummary(input) == IF input.summary = MISSING THEN "" ELSE input.summary

\* tool_input.get("visualizations", [])
GetVisualizations(input) ==
    IF input.visualizations.type = "missing"
    THEN [type |-> "list", items |-> <<>>]
    ELSE input.visualizations

\* if final_summary is not None: break
ShouldStopTruthy(fs) == fs # NONE /\ fs # ""

ShouldStop(fs) == fs # NONE

\* return final_summary or "No results generated."
ReturnValueNoFallback(fs) == fs

ReturnValue(fs) == IF fs # NONE /\ fs # "" THEN fs ELSE "No results generated."

\* _handle_execute_code: the string built from an ExecutionResult
ExecuteCodeResponse(r) ==
    IF r.success
    THEN (IF r.output # <<>> THEN <<"Output:", "\n">> \o r.output
          ELSE <<"Code executed successfully (no output).">>)
         \o (IF r.figures # <<>> THEN <<"\n\nGenerated figures: ">> \o r.figures
             ELSE <<>>)
    ELSE <<"Error:", "\n", r.error>>

\* no response received yet
NoResponse == [text |-> "", stop_reason |-> NONE, content |-> <<>>]

AgentFresh ==
    /\ messages = <<>>
    /\ figures = <<>>
    /\ iteration = 0
    /\ final_summary = NONE
    /\ response = NoResponse
    /\ tool_uses = <<>>
    /\ tool_results = <<>>
    /\ next_tool = 1
    /\ pc = "idle"
    /\ ret = NONE
    /\ requests = <<>>
    /\ presenter = <<>>

AgentInit ==
    /\ max_iterations \in 0..MaxBudget
    /\ AgentFresh

\* run, lines 33-52: the initial message and the loop variables
Run ==
    /\ pc = "idle"
    /\ messages' = AppendTurn(messages, InitialMessage)
    /\ iteration' = 0
    /\ final_summary' = NONE
    /\ pc' = "loop"
    /\ UNCHANGED <<execVars, llmVars, rateVars, twinVars>>
    /\ UNCHANGED <<max_iterations, figures, response, tool_uses, tool_results,
                   next_tool, ret, requests, presenter>>

\* run, lines 55-81: a pass of the loop in which send_message returns
\* `turn`
ReceiveTurn(turn) ==
    /\  LET text_content == ExtractText(turn)
            uses == ExtractToolUse(turn)
            thinking == <<Show("show_thinking", "Thinking...", {})>>
                        \o (IF text_content # ""
                            THEN <<Show("show_thinking", text_content, {})>>
                            ELSE <<>>)
        IN  /\ iteration' = iteration + 1
            /\ requests' = Append(requests, "turn")
            /\ response' = turn
            /\ presenter' = presenter \o thinking
            /\ tool_uses' = uses
            /\ IF NaturalCompletion(uses, turn)
               THEN /\ final_summary' = FinalText(text_content)
                    /\ pc' = "post"
                    /\ UNCHANGED <<messages, tool_results, next_tool>>
               ELSE /\ messages' = AppendTurn(messages, AssistantMessage(turn))
                    /\ tool_results' = <<>>
                    /\ next_tool' = 1
                    /\ pc' = "tools"
                    /\ UNCHANGED final_summary
    /\ UNCHANGED <<execVars, llmVars, rateVars, twinVars>>
    /\ UNCHANGED <<max_iterations, figures, ret>>

\* the turns the model can answer with at this point of the conversation
Offered ==
    {t \in ModelTurns(iteration + 1) :
        ToolUseCount(messages) + Len(t.content) <= MaxToolUses}

\* run, lines 54-81: the loop is entered and send_message returns
SendMessageReturns ==
    /\ pc = "loop"
    /\ LoopGuard(iteration, max_iterations)
    /\ \E turn \in Offered : ReceiveTurn(turn)

\* run, lines 54-63: send_message raises
SendMessageRaises ==
    /\ pc = "loop"
    /\ LoopGuard(iteration, max_iterations)
    /\ iteration' = iteration + 1
    /\ requests' = Append(requests, "raise")
    /\ presenter' = presenter \o <<Show("show_thinking", "Thinking...", {}),
                                   Show("show_error", "API Error", {})>>
    /\ pc' = "post"
    /\ UNCHANGED <<execVars, llmVars, rateVars, twinVars>>
    /\ UNCHANGED <<max_iterations, messages, figures, final_summary, response,
                   tool_uses, tool_results, next_tool, ret>>

IsErrorNever(content) == FALSE

\* line 99: is_error = result.startswith("Error:")
IsError(content) == StartsWith(content, "Error:")

\* the handler returned `content`; lines 88-103 append the tool result
Answered(use, content) ==
    IF use.name = "present_results"
    THEN /\ final_summary' = GetSummary(use.input)
         /\ tool_results' = Append(tool_results,
                FormatToolResult(use.id, <<"Results presented to user.">>, FALSE))
    ELSE IF use.name = "ask_clarifying_question"
    THEN /\ tool_results' = Append(tool_results,
                FormatToolResult(use.id, content, FALSE))
         /\ UNCHANGED final_summary
    ELSE /\ tool_results' = Append(tool_results,
                FormatToolResult(use.id, content, IsError(content)))
         /\ UNCHANGED final_summary

\* an exception leaves _handle_tool_call and run
Propagates ==
    /\ pc' = "raised"
    /\ UNCHANGED <<final_summary, tool_results, next_tool>>

\* run, lines 85-103 with _handle_tool_call: one tool_use of the turn
HandleExecuteCode ==
    /\ pc = "tools"
    /\ next_tool <= Len(tool_uses)
    /\ tool_uses[next_tool].name = "execute_code"
    /\ \/ \E r \in ExecutionResults :
            /\ presenter' = Append(presenter, Show("show_code_execution", "", {}))
            /\ figures' = figures \o r.figures
            /\ Answered(tool_uses[next_tool], ExecuteCodeResponse(r))
            /\ next_tool' = next_tool + 1
            /\ UNCHANGED pc
       \/ \* execute raises an exception that is not an Exception
          /\ Propagates
          /\ UNCHANGED <<presenter, figures>>
       \/ \* execute does not return
          /\ pc' = "blocked"
          /\ UNCHANGED <<presenter, figures, final_summary, tool_results, next_tool>>
    /\ UNCHANGED <<execVars, llmVars, rateVars, twinVars>>
    /\ UNCHANGED <<max_iterations, messages, iteration, response, tool_uses,
                   ret, requests>>

HandleAskQuestion ==
    /\ pc = "tools"
    /\ next_tool <= Len(tool_uses)
    /\ tool_uses[next_tool].name = "ask_clarifying_question"
    /\ presenter' = Append(presenter, Show("show_question", "", {}))
    /\ \/ /\ Answered(tool_uses[next_tool], <<"User response: ", "yes">>)
          /\ next_tool' = next_tool + 1
          /\ UNCHANGED pc
       \/ \* Prompt.ask raises (end of input)
          Propagates
    /\ UNCHANGED <<execVars, llmVars, rateVars, twinVars>>
    /\ UNCHANGED <<max_iterations, messages, figures, iteration, response,
                   tool_uses, ret, requests>>

HandlePresentResults ==
    /\ pc = "tools"
    /\ next_tool <= Len(tool_uses)
    /\ tool_uses[next_tool].name = "present_results"
    /\ LET input == tool_uses[next_tool].input
           summary == GetSummary(input)
           visualizations == GetVisualizations(input)
       IN  IF visualizations.type = "list"
           THEN /\ presenter' = Append(presenter,
                        Show("show_results", summary,
                             SeqToSet(visualizations.items \o figures)))
                /\ Answered(tool_uses[next_tool], <<"Results presented successfully.">>)
                /\ next_tool' = next_tool + 1
                /\ UNCHANGED pc
           ELSE \* visualizations + self.figures raises TypeError
                /\ Propagates
                /\ UNCHANGED presenter
    /\ UNCHANGED <<execVars, llmVars, rateVars, twinVars>>
    /\ UNCHANGED <<max_iterations, messages, figures, iteration, response,
                   tool_uses, ret, requests>>

HandleUnknownTool ==
    /\ pc = "tools"
    /\ next_tool <= Len(tool_uses)
    /\ tool_uses[next_tool].name \notin
            {"execute_code", "ask_clarifying_question", "present_results"}
    /\ Answered(tool_uses[next_tool],
                <<"Error:", " Unknown tool '", tool_uses[next_tool].name, "'">>)
    /\ next_tool' = next_tool + 1
    /\ UNCHANGED <<execVars, llmVars, rateVars, twinVars>>
    /\ UNCHANGED <<max_iterations, messages, figures, iteration, response,
                   tool_uses, pc, ret, requests, presenter>>

\* run, lines 105-113: the for loop is over
AppendToolResults ==
    /\ pc = "tools"
    /\ next_tool > Len(tool_uses)
    /\ messages' = AppendTurn(messages, ToolResultMessage(tool_results))
    /\ pc' = IF ShouldStop(final_summary) THEN "post" ELSE "loop"
    /\ UNCHANGED <<execVars, llmVars, rateVars, twinVars>>
    /\ UNCHANGED <<max_iterations, figures, iteration, final_summary, response,
                   tool_uses, tool_results, next_tool, ret, requests, presenter>>

\* run, lines 115-123: after the loop
Return ==
    /\ \/ pc = "post"
       \/ pc = "loop" /\ ~LoopGuard(iteration, max_iterations)
    /\ IF iteration >= max_iterations /\ final_summary = NONE
       THEN /\ presenter' = Append(presenter, Show("show_warning", "Reached maximum iterations", {}))
            /\ final_summary' = "Analysis incomplete - maximum iterations reached."
       ELSE UNCHANGED <<presenter, final_summary>>
    /\ ret' = ReturnValue(final_summary')
    /\ pc' = "returned"
    /\ UNCHANGED <<execVars, llmVars, rateVars, twinVars>>
    /\ UNCHANGED <<max_iterations, messages, figures, iteration, response,
                   tool_uses, tool_results, next_tool, requests>>

\* the executor as constructed, before any execute call
NoResult == [success |-> FALSE, output |-> <<>>, error |-> NONE, figures |-> <<>>]

ExecFresh ==
    /\ fignums = {}
    /\ df = "loaded"
    /\ figure_counter = 0
    /\ code = <<>>
    /\ figures_before = {}
    /\ namespace_df = [object |-> NONE, shape |-> NONE]
    /\ namespace_user = {}
    /\ stdout_buffer = <<>>
    /\ result_container = NONE
    /\ future = "none"
    /\ worker_ip = 1
    /\ epc = "idle"
    /\ result = NoResult
    /\ calls = 0
    /\ at_timeout = [elapsed |-> FALSE, output |-> <<>>]   \* NotElapsed

\* LLMClient.__init__; no send_message call made yet
LLMFresh ==
    /\ attempt = 0
    /\ create_calls = <<>>
    /\ sleeps = <<>>
    /\ lpc = "idle"
    /\ sent = NONE
    /\ sends = 0

\* the default of max_retries
DefaultMaxRetries == 3

\* app.py lines 33-36: the session state before any Analyze request
RateFresh ==
    /\ query_timestamps = <<>>
    /\ clock = 0
    /\ recorded = <<>>
    /\ analyses = 0
    /\ rpc = "idle"

\* no script is being played
NoScript == [turns |-> <<>>, outcomes |-> <<>>]

TwinFresh ==
    /\ script = NoScript
    /\ twin = "off"
    /\ agent_messages = <<>>
    /\ agent_requests = <<>>

Init ==
    /\ AgentInit
    /\ files = {}
    /\ ExecFresh
    /\ max_retries = DefaultMaxRetries
    /\ LLMFresh
    /\ RateFresh
    /\ TwinFresh

Next ==
    \/ Run
    \/ SendMessageReturns
    \/ SendMessageRaises
    \/ HandleExecuteCode
    \/ HandleAskQuestion
    \/ HandlePresentResults
    \/ HandleUnknownTool
    \/ AppendToolResults
    \/ Return

Spec == Init /\ [][Next]_vars

\* =================================================== executor.py: execute
\* the statements a snippet is made of
Statements == {"print", "plt.figure", "plt.savefig", "plt.close", "df.drop",
               "raise ValueError", "sys.exit", "while True", "unclosed string"}

Snippets == UNION {[1..n -> Statements] : n \in 0..MaxCodeLen}

\* compile() rejects the whole snippet before any statement runs
Unparsable(snippet) == \E i \in 1..Len(snippet) : snippet[i] = "unclosed string"

SetMax(S) == CHOOSE x \in S : \A y \in S : y <= x

\* order of the path strings "output/figure_<n>.png" (n < 10) and
\* "output/plot.png"
PathLess(a, b) ==
    \/ a.name = "figure" /\ b.name = "plot"
    \/ a.name = b.name /\ a.n < b.n

\* sorted(S)
RECURSIVE Sorted(_)
Sorted(S) ==
    IF S = {} THEN <<>>
    ELSE LET m == CHOOSE x \in S : \A y \in S \ {x} : PathLess(x, y)
         IN  <<m>> \o Sorted(S \ {m})

AutoSavedBeforeIncrement(open, counter) ==
    {Path("figure", counter + k - 1) : k \in 1..Cardinality(open)}

\* lines 102-110: the files written for the figures left open, one counter
\* value each
AutoSaved(open, counter) ==
    {Path("figure", counter + k) : k \in 1..Cardinality(open)}

\* line 69: "df": self.df.copy(), a new object with the shape of self.df
DfAlias(frame) == [object |-> "self.df", shape |-> frame]

DfCopy(frame) == [object |-> "copy", shape |-> frame]

\* the timeout has not elapsed in this call
NotElapsed == [elapsed |-> FALSE, output |-> <<>>]

CloseNone(open) == open

\* lines 65, 110, 137: plt.close('all')
CloseAll(open) == {}

NewFiguresAll(after, before) == after

\* line 114: figures_after - figures_before
NewFigures(after, before) == after \ before

JoinedNoWait(f) == TRUE

\* leaving the with block of line 93: shutdown(wait=True) returns when the
\* worker has finished
Joined(f) == f # "running"

NamespaceKept(names) == names

\* lines 68-75: namespace is a new dict with the six keys of the literal;
\* it holds none of the names an earlier snippet bound
NamespaceLiteral(names) == {}

\* the executor is not inside execute and may be called again
Callable == epc \in {"idle", "returned", "raised"} /\ calls < MaxCalls

\* _get_existing_figures; lines 62-90: up to the submission of run_code
Submit(snippet) ==
    /\ code' = snippet
    /\ calls' = calls + 1
    /\ figures_before' = files
    /\ fignums' = CloseAll(fignums)
    /\ namespace_df' = DfCopy(df)
    /\ namespace_user' = NamespaceLiteral(namespace_user)
    /\ at_timeout' = NotElapsed
    /\ stdout_buffer' = <<>>
    /\ result_container' = NONE
    /\ future' = "running"
    /\ worker_ip' = 1
    /\ epc' = "result"
    /\ UNCHANGED <<files, df, figure_counter, result>>
    /\ UNCHANGED <<agentVars, llmVars, rateVars, twinVars>>

\* execute called with a snippet
Execute == Callable /\ \E snippet \in Snippets : Submit(snippet)

\* exec(code, namespace): the statement reads a name namespace does not hold
Unbound(statement, names) == statement = "print(x)" /\ "x" \notin names

\* run_code, lines 84-89: the worker runs the next statement of the snippet
WorkerStep ==
    /\ future = "running"
    /\ IF Unparsable(code)
       THEN /\ result_container' = "SyntaxError"
            /\ future' = "done"
            /\ UNCHANGED <<files, fignums, df, namespace_df, namespace_user,
                           stdout_buffer, worker_ip>>
       ELSE IF worker_ip > Len(code)
       THEN /\ future' = "done"
            /\ UNCHANGED <<files, fignums, df, namespace_df, namespace_user,
                           stdout_buffer, result_container, worker_ip>>
       ELSE /\ code[worker_ip] # "while True"
            /\ worker_ip' = worker_ip + 1
            /\ stdout_buffer' = IF code[worker_ip] = "print"
                                THEN Append(stdout_buffer, "text")
                                ELSE IF code[worker_ip] = "print(x)"
                                        /\ "x" \in namespace_user
                                THEN Append(stdout_buffer, "1")
                                ELSE stdout_buffer
            /\ namespace_user' = IF code[worker_ip] = "x = 1"
                                 THEN namespace_user \cup {"x"}
                                 ELSE namespace_user
            /\ fignums' = CASE code[worker_ip] = "plt.figure" ->
                                  fignums \cup {IF fignums = {} THEN 1
                                                ELSE SetMax(fignums) + 1}
                            [] code[worker_ip] = "plt.savefig" ->
                                  IF fignums = {} THEN {1} ELSE fignums
                            [] code[worker_ip] = "plt.close" ->
                                  IF fignums = {} THEN {}
                                  ELSE fignums \ {SetMax(fignums)}
                            [] OTHER -> fignums
            /\ files' = IF code[worker_ip] = "plt.savefig"
                        THEN files \cup {Path("plot", 0)}
                        ELSE files
            /\ namespace_df' = IF code[worker_ip] = "df.drop"
                               THEN [namespace_df EXCEPT !.shape = "dropped"]
                               ELSE namespace_df
            /\ df' = IF code[worker_ip] = "df.drop"
                        /\ namespace_df.object = "self.df"
                     THEN "dropped"
                     ELSE df
            /\ result_container' = IF code[worker_ip] = "raise ValueError"
                                   THEN "ValueError"
                                   ELSE IF Unbound(code[worker_ip], namespace_user)
                                   THEN "NameError"
                                   ELSE result_container
            /\ future' = CASE code[worker_ip] = "raise ValueError" -> "done"
                           [] Unbound(code[worker_ip], namespace_user) -> "done"
                           [] code[worker_ip] = "sys.exit" -> "SystemExit"
                           [] OTHER -> "running"
    /\ UNCHANGED <<figure_counter, code, figures_before, epc, result, calls,
                   at_timeout>>
    /\ UNCHANGED <<agentVars, llmVars, rateVars, twinVars>>

ErrorCapturedNever(container) == FALSE

\* line 98: if result_container["error"]
ErrorCaptured(container) == container # NONE

\* lines 91-136: future.result returns or re-raises before the timeout
FutureResult ==
    /\ epc = "result"
    /\ future \in {"done", "SystemExit"}
    /\ fignums' = CloseAll(fignums)
    /\ IF future = "SystemExit"
       THEN \* not an Exception: no except clause applies
            /\ epc' = "raised"
            /\ UNCHANGED <<files, figure_counter, result>>
       ELSE IF ErrorCaptured(result_container)
       THEN /\ result' = ExecutionResult(FALSE, stdout_buffer, result_container, <<>>)
            /\ epc' = "returned"
            /\ UNCHANGED <<files, figure_counter>>
       ELSE /\ figure_counter' = figure_counter + Cardinality(fignums)
            /\ files' = files \cup AutoSaved(fignums, figure_counter)
            /\ result' = ExecutionResult(TRUE, stdout_buffer, NONE,
                                         Sorted(NewFigures(files', figures_before)))
            /\ epc' = "returned"
    /\ UNCHANGED <<df, code, figures_before, namespace_df, namespace_user,
                   stdout_buffer,
                   result_container, future, worker_ip, calls, at_timeout>>
    /\ UNCHANGED <<agentVars, llmVars, rateVars, twinVars>>

\* line 95: the timeout elapses in future.result; leaving the with block
\* calls shutdown(wait=True)
Timeout ==
    /\ epc = "result"
    /\ future = "running"
    /\ epc' = "shutdown"
    /\ at_timeout' = [elapsed |-> TRUE, output |-> stdout_buffer]
    /\ UNCHANGED <<files, fignums, df, figure_counter, code, figures_before,
                   namespace_df, namespace_user, stdout_buffer, result_container, future,
                   worker_ip, result, calls>>
    /\ UNCHANGED <<agentVars, llmVars, rateVars, twinVars>>

\* lines 123-128, 135-136: shutdown has joined the worker
ShutdownReturns ==
    /\ epc = "shutdown"
    /\ Joined(future)
    /\ result' = ExecutionResult(FALSE, stdout_buffer, "Timeout", <<>>)
    /\ fignums' = CloseAll(fignums)
    /\ epc' = "returned"
    /\ UNCHANGED <<files, df, figure_counter, code, figures_before, namespace_df,
                   namespace_user, stdout_buffer, result_container, future, worker_ip, calls,
                   at_timeout>>
    /\ UNCHANGED <<agentVars, llmVars, rateVars, twinVars>>

\* files another CodeExecutor may have left in output_dir
InitExec ==
    /\ max_iterations = 0
    /\ AgentFresh
    /\ files \in SUBSET {Path("figure", 1), Path("plot", 0)}
    /\ ExecFresh
    /\ max_retries = DefaultMaxRetries
    /\ LLMFresh
    /\ RateFresh
    /\ TwinFresh

NextExec ==
    \/ Execute
    \/ WorkerStep
    \/ FutureResult
    \/ Timeout
    \/ ShutdownReturns

SpecExec == InitExec /\ [][NextExec]_vars

\* --------------------- executor.py: snippets that bind and read a name
NameStatements == {"x = 1", "print(x)", "print", "raise ValueError",
                   "while True"}

NameSnippets == UNION {[1..n -> NameStatements] : n \in 0..MaxCodeLen}

ExecuteNames == Callable /\ \E snippet \in NameSnippets : Submit(snippet)

NextNames ==
    \/ ExecuteNames
    \/ WorkerStep
    \/ FutureResult
    \/ Timeout
    \/ ShutdownReturns

SpecNames == InitExec /\ [][NextNames]_vars

\* ================================================= llm.py: send_message
\* the Message objects messages.create may return
Responses == {"response_a", "response_b"}

\* the errors the two except clauses catch
TransientErrors == {"RateLimitError", "APIError"}

\* 2 ** n
RECURSIVE Pow2(_)
Pow2(n) == IF n = 0 THEN 1 ELSE 2 * Pow2(n - 1)

WaitTimeFromTwo(n) == Pow2(n + 1)

\* lines 122, 128: wait_time = 2 ** attempt
WaitTime(n) == Pow2(n)

ShouldRetryGivesUpEarly(n, retries) == n < retries - 2

\* lines 121, 127: if attempt < self.max_retries - 1
ShouldRetry(n, retries) == n < retries - 1

\* line 110: for attempt in range(self.max_retries), one more iteration
InRange(n, retries) == n < retries

\* lines 94-110: a call starts; attempt takes the first value of the range
SendMessage ==
    /\ lpc \in {"idle", "returned", "raised"}
    /\ sends < MaxSends
    /\ sends' = sends + 1
    /\ attempt' = 0
    /\ create_calls' = <<>>
    /\ sleeps' = <<>>
    /\ sent' = NONE
    /\ lpc' = "loop"
    /\ UNCHANGED max_retries
    /\ UNCHANGED <<agentVars, execVars, rateVars, twinVars>>

\* lines 112-119: messages.create returns a Message
CreateReturns ==
    /\ lpc = "loop"
    /\ InRange(attempt, max_retries)
    /\ \E message \in Responses :
          /\ create_calls' = Append(create_calls, message)
          /\ sent' = message
    /\ lpc' = "returned"
    /\ UNCHANGED <<max_retries, attempt, sleeps, sends>>
    /\ UNCHANGED <<agentVars, execVars, rateVars, twinVars>>

\* lines 120-131: messages.create raises RateLimitError or another APIError
CreateRaisesTransient ==
    /\ lpc = "loop"
    /\ InRange(attempt, max_retries)
    /\ \E e \in TransientErrors :
          /\ create_calls' = Append(create_calls, e)
          /\ IF ShouldRetry(attempt, max_retries)
             THEN /\ sleeps' = Append(sleeps, WaitTime(attempt))
                  /\ attempt' = attempt + 1
                  /\ UNCHANGED <<lpc, sent>>
             ELSE /\ sent' = e
                  /\ lpc' = "raised"
                  /\ UNCHANGED <<attempt, sleeps>>
    /\ UNCHANGED <<max_retries, sends>>
    /\ UNCHANGED <<agentVars, execVars, rateVars, twinVars>>

\* lines 111-131: messages.create raises an error no except clause names
CreateRaisesOther ==
    /\ lpc = "loop"
    /\ InRange(attempt, max_retries)
    /\ create_calls' = Append(create_calls, "TypeError")
    /\ sent' = "TypeError"
    /\ lpc' = "raised"
    /\ UNCHANGED <<max_retries, attempt, sleeps, sends>>
    /\ UNCHANGED <<agentVars, execVars, rateVars, twinVars>>

\* line 110: the range is exhausted and the function ends without a return
\* statement; only an empty range gets here, the last iteration of any
\* other returns or raises
LoopEnds ==
    /\ lpc = "loop"
    /\ ~InRange(attempt, max_retries)
    /\ sent' = NONE
    /\ lpc' = "returned"
    /\ UNCHANGED <<max_retries, attempt, create_calls, sleeps, sends>>
    /\ UNCHANGED <<agentVars, execVars, rateVars, twinVars>>

InitLLM ==
    /\ max_iterations = 0
    /\ AgentFresh
    /\ files = {}
    /\ ExecFresh
    /\ max_retries \in -1..MaxRetries
    /\ LLMFresh
    /\ RateFresh
    /\ TwinFresh

NextLLM ==
    \/ SendMessage
    \/ CreateReturns
    \/ CreateRaisesTransient
    \/ CreateRaisesOther
    \/ LoopEnds

SpecLLM == InitLLM /\ [][NextLLM]_vars

\* ================================== agent.py: run called more than once
\* the run calls made on this agent: each appends the initial message
RunCount == Cardinality({i \in 1..Len(messages) : messages[i] = InitialMessage})

\* run, lines 33-52, called again on an agent whose earlier run returned:
\* iteration and final_summary are locals of the call; self.messages and
\* self.figures are assigned only in __init__ (lines 15-16)
RunAgain ==
    /\ pc = "returned"
    /\ RunCount < MaxRuns
    /\ messages' = AppendTurn(messages, InitialMessage)
    /\ iteration' = 0
    /\ final_summary' = NONE
    /\ pc' = "loop"
    /\ UNCHANGED <<execVars, llmVars, rateVars, twinVars>>
    /\ UNCHANGED <<max_iterations, figures, response, tool_uses, tool_results,
                   next_tool, ret, requests, presenter>>

InitRuns ==
    /\ max_iterations \in 1..MaxBudget
    /\ AgentFresh
    /\ files = {}
    /\ ExecFresh
    /\ max_retries = DefaultMaxRetries
    /\ LLMFresh
    /\ RateFresh
    /\ TwinFresh

NextRuns ==
    \/ Run
    \/ SendMessageReturns
    \/ SendMessageRaises
    \/ HandleExecuteCode
    \/ HandleAskQuestion
    \/ HandlePresentResults
    \/ HandleUnknownTool
    \/ AppendToolResults
    \/ Return
    \/ RunAgain

SpecRuns == InitRuns /\ [][NextRuns]_vars

\* ============================== agent.py, executor.py: construction
ReadCsvEmptyOnError(readable) == IF readable THEN "loaded" ELSE "empty"

\* executor.py line 36: pd.read_csv(csv_path) returns the frame or raises
ReadCsv(readable) == IF readable THEN "loaded" ELSE "raise"

\* DataAnalystAgent.__init__ (agent.py lines 13-22) with CodeExecutor.__init__
\* (executor.py lines 33-38): an exception of read_csv leaves both
\* constructors and no instance exists
Construct ==
    /\ pc = "new"
    /\ \E readable \in BOOLEAN :
          LET frame == ReadCsv(readable)
          IN  IF frame = "raise"
              THEN /\ pc' = "failed"
                   /\ epc' = "failed"
                   /\ UNCHANGED df
              ELSE /\ pc' = "idle"
                   /\ epc' = "idle"
                   /\ df' = frame
    /\ UNCHANGED <<max_iterations, messages, figures, iteration, final_summary,
                   response, tool_uses, tool_results, next_tool, ret, requests,
                   presenter>>
    /\ UNCHANGED <<files, fignums, figure_counter, code, figures_before,
                   namespace_df, namespace_user, stdout_buffer, result_container, future,
                   worker_ip, result, calls, at_timeout>>
    /\ UNCHANGED <<llmVars, rateVars, twinVars>>

\* before the constructor runs: AgentFresh and ExecFresh are what it
\* assigns when it succeeds
InitConstruct ==
    /\ max_iterations \in 0..MaxBudget
    /\ messages = <<>>
    /\ figures = <<>>
    /\ iteration = 0
    /\ final_summary = NONE
    /\ response = NoResponse
    /\ tool_uses = <<>>
    /\ tool_results = <<>>
    /\ next_tool = 1
    /\ pc = "new"
    /\ ret = NONE
    /\ requests = <<>>
    /\ presenter = <<>>
    /\ files = {}
    /\ fignums = {}
    /\ df = "unassigned"
    /\ figure_counter = 0
    /\ code = <<>>
    /\ figures_before = {}
    /\ namespace_df = [object |-> NONE, shape |-> NONE]
    /\ namespace_user = {}
    /\ stdout_buffer = <<>>
    /\ result_container = NONE
    /\ future = "none"
    /\ worker_ip = 1
    /\ epc = "new"
    /\ result = NoResult
    /\ calls = 0
    /\ at_timeout = [elapsed |-> FALSE, output |-> <<>>]
    /\ max_retries = DefaultMaxRetries
    /\ LLMFresh
    /\ RateFresh
    /\ TwinFresh

NextConstruct ==
    \/ Construct
    \/ Run
    \/ SendMessageReturns
    \/ SendMessageRaises
    \/ HandleExecuteCode
    \/ HandleAskQuestion
    \/ HandlePresentResults
    \/ HandleUnknownTool
    \/ AppendToolResults
    \/ Return

SpecConstruct == InitConstruct /\ [][NextConstruct]_vars

\* ================================================ app.py: the web loop
\* In SpecWeb the variables messages, figures, max_iterations, iteration,
\* response, tool_uses and tool_results are the names of app.py bound at
\* lines 126-153; presenter records the calls on st and status, requests
\* the send_message calls, pc the position in the script.

\* lines 174-179: result_text
WebExecuteCodeResponse(r) ==
    IF r.success
    THEN (IF r.output # <<>> THEN <<"Output:", "\n">> \o r.output
          ELSE <<"Code executed successfully.">>)
         \o (IF r.figures # <<>> THEN <<"\n\nGenerated figures: ">> \o r.figures
             ELSE <<>>)
    ELSE <<"Error:", "\n", r.error>>

\* line 196: figures.extend(viz); a str is iterated character by
\* character, and none of the one-character strings is a path (n = -1)
Extended(figs, viz) ==
    IF viz.type = "list"
    THEN figs \o viz.items
    ELSE figs \o [i \in 1..9 |->
                   [name |-> <<"c", "h", "a", "r", "t", ".", "p", "n", "g">>[i],
                    n |-> -1]]

\* lines 134-153: a pass of the loop in which send_message returns
\* `turn`
WebReceiveTurn(turn) ==
    /\  LET text_content == ExtractText(turn)
            uses == ExtractToolUse(turn)
            written == <<Show("status.update", "Analyzing...", {})>>
                       \o (IF text_content # ""
                           THEN <<Show("status.write", text_content, {})>>
                           ELSE <<>>)
        IN  /\ iteration' = iteration + 1
            /\ requests' = Append(requests, "turn")
            /\ response' = turn
            /\ presenter' = presenter \o written
            /\ tool_uses' = uses
            /\ IF NaturalCompletion(uses, turn)
               THEN /\ pc' = "done"
                    /\ UNCHANGED <<messages, tool_results, next_tool>>
               ELSE /\ messages' = AppendTurn(messages, AssistantMessage(turn))
                    /\ tool_results' = <<>>
                    /\ next_tool' = 1
                    /\ pc' = "tools"
    /\ UNCHANGED <<execVars, llmVars, rateVars, twinVars>>
    /\ UNCHANGED <<max_iterations, figures, final_summary, ret>>

\* lines 133-153: the loop is entered and send_message returns
WebSendMessageReturns ==
    /\ pc = "loop"
    /\ LoopGuard(iteration, max_iterations)
    /\ \E turn \in Offered : WebReceiveTurn(turn)

\* lines 137, 225-226: send_message raises; except Exception reports it
WebSendMessageRaises ==
    /\ pc = "loop"
    /\ LoopGuard(iteration, max_iterations)
    /\ iteration' = iteration + 1
    /\ requests' = Append(requests, "raise")
    /\ presenter' = presenter \o <<Show("status.update", "Analyzing...", {}),
                                   Show("st.error", "Error", {})>>
    /\ pc' = "error"
    /\ UNCHANGED <<execVars, llmVars, rateVars, twinVars>>
    /\ UNCHANGED <<max_iterations, messages, figures, final_summary, response,
                   tool_uses, tool_results, next_tool, ret>>

WebIsErrorNever(r) == FALSE

\* line 182: is_error=not result.success
WebIsError(r) == ~r.success

\* lines 156-183
WebExecuteCode ==
    /\ pc = "tools"
    /\ next_tool <= Len(tool_uses)
    /\ tool_uses[next_tool].name = "execute_code"
    /\ \/ \E r \in ExecutionResults :
            /\ presenter' = Append(presenter, Show("st.code", "", {}))
            /\ figures' = IF r.success THEN figures \o r.figures ELSE figures
            /\ tool_results' = Append(tool_results,
                   FormatToolResult(tool_uses[next_tool].id,
                                    WebExecuteCodeResponse(r), WebIsError(r)))
            /\ next_tool' = next_tool + 1
            /\ UNCHANGED pc
       \/ \* execute raises an exception that is not an Exception
          /\ pc' = "raised"
          /\ presenter' = Append(presenter, Show("st.code", "", {}))
          /\ UNCHANGED <<figures, tool_results, next_tool>>
       \/ \* execute does not return
          /\ pc' = "blocked"
          /\ presenter' = Append(presenter, Show("st.code", "", {}))
          /\ UNCHANGED <<figures, tool_results, next_tool>>
    /\ UNCHANGED <<execVars, llmVars, rateVars, twinVars>>
    /\ UNCHANGED <<max_iterations, messages, iteration, final_summary, response,
                   tool_uses, ret, requests>>

\* lines 185-191
WebAskQuestion ==
    /\ pc = "tools"
    /\ next_tool <= Len(tool_uses)
    /\ tool_uses[next_tool].name = "ask_clarifying_question"
    /\ presenter' = Append(presenter, Show("status.write", "Question", {}))
    /\ tool_results' = Append(tool_results,
           FormatToolResult(tool_uses[next_tool].id,
               <<"User response: ", "Please proceed with your best judgment.">>,
               FALSE))
    /\ next_tool' = next_tool + 1
    /\ UNCHANGED <<execVars, llmVars, rateVars, twinVars>>
    /\ UNCHANGED <<max_iterations, messages, figures, iteration, final_summary,
                   response, tool_uses, pc, ret, requests>>

\* lines 193-217: the break leaves the for loop over tool_uses, so the
\* invocations after this one are not processed
WebPresentResults ==
    /\ pc = "tools"
    /\ next_tool <= Len(tool_uses)
    /\ tool_uses[next_tool].name = "present_results"
    /\ LET input == tool_uses[next_tool].input
           summary == GetSummary(input)
           viz == GetVisualizations(input)
       IN  /\ figures' = Extended(figures, viz)
           /\ presenter' = presenter \o
                  <<Show("status.update", "Analysis complete!", {}),
                    Show("st.markdown", summary, SeqToSet(figures'))>>
    /\ tool_results' = Append(tool_results,
           FormatToolResult(tool_uses[next_tool].id,
                            <<"Results presented to user.">>, FALSE))
    /\ next_tool' = Len(tool_uses) + 1
    /\ UNCHANGED <<execVars, llmVars, rateVars, twinVars>>
    /\ UNCHANGED <<max_iterations, messages, iteration, final_summary, response,
                   tool_uses, pc, ret, requests>>

\* lines 155-217: no branch of the if chain matches the name
WebUnknownTool ==
    /\ pc = "tools"
    /\ next_tool <= Len(tool_uses)
    /\ tool_uses[next_tool].name \notin
            {"execute_code", "ask_clarifying_question", "present_results"}
    /\ next_tool' = next_tool + 1
    /\ UNCHANGED <<execVars, llmVars, rateVars, twinVars>>
    /\ UNCHANGED <<max_iterations, messages, figures, iteration, final_summary,
                   response, tool_uses, tool_results, pc, ret, requests,
                   presenter>>

\* lines 219-220: the for loop over tool_uses is over or was left by break;
\* the for loop over range(max_iterations) goes on
WebAppendToolResults ==
    /\ pc = "tools"
    /\ next_tool > Len(tool_uses)
    /\ messages' = AppendTurn(messages, ToolResultMessage(tool_results))
    /\ pc' = "loop"
    /\ UNCHANGED <<execVars, llmVars, rateVars, twinVars>>
    /\ UNCHANGED <<max_iterations, figures, iteration, final_summary, response,
                   tool_uses, tool_results, next_tool, ret, requests, presenter>>

\* lines 222-223: the range is exhausted without break
WebLoopEnds ==
    /\ pc = "loop"
    /\ ~LoopGuard(iteration, max_iterations)
    /\ presenter' = Append(presenter,
                           Show("status.update", "Reached maximum iterations", {}))
    /\ pc' = "done"
    /\ UNCHANGED <<execVars, llmVars, rateVars, twinVars>>
    /\ UNCHANGED <<max_iterations, messages, figures, iteration, final_summary,
                   response, tool_uses, tool_results, next_tool, ret, requests>>

\* lines 126-131, the state before the loop; the loop is checked for the
\* budgets 1..MaxBudget in place of the 10 of line 130
InitWeb ==
    /\ max_iterations \in 1..MaxBudget
    /\ messages = <<InitialMessage>>
    /\ figures = <<>>
    /\ iteration = 0
    /\ final_summary = NONE
    /\ response = NoResponse
    /\ tool_uses = <<>>
    /\ tool_results = <<>>
    /\ next_tool = 1
    /\ pc = "loop"
    /\ ret = NONE
    /\ requests = <<>>
    /\ presenter = <<>>
    /\ files = {}
    /\ ExecFresh
    /\ max_retries = DefaultMaxRetries
    /\ LLMFresh
    /\ RateFresh
    /\ TwinFresh

NextWeb ==
    \/ WebSendMessageReturns
    \/ WebSendMessageRaises
    \/ WebExecuteCode
    \/ WebAskQuestion
    \/ WebPresentResults
    \/ WebUnknownTool
    \/ WebAppendToolResults
    \/ WebLoopEnds

SpecWeb == InitWeb /\ [][NextWeb]_vars

\* ================= agent.py and app.py: the two loops on one script
\* the model turns without tool invocation or with execute_code only
ExecTurns(it) ==
    {t \in ModelTurns(it) :
        \A u \in 1..Len(t.content) : t.content[u].name = "execute_code"}

RECURSIVE Invocations(_, _)
Invocations(turns, k) ==
    IF k = 0 THEN 0 ELSE Len(turns[k].content) + Invocations(turns, k - 1)

\* the answers of the model to the requests 1..k
RECURSIVE TurnScripts(_)
TurnScripts(k) ==
    IF k = 0 THEN {<<>>}
    ELSE {Append(p, t) : p \in TurnScripts(k - 1), t \in ExecTurns(k)}

\* what the model answers to the requests 1..budget and what execute
\* returns for the invocations, in the order they are made
Scripts(budget) ==
    UNION {{[turns |-> ts, outcomes |-> os] :
               os \in [1..Invocations(ts, budget) -> ExecutionResults]} :
           ts \in {p \in TurnScripts(budget) :
                      Invocations(p, budget) <= MaxToolUses}}

\* the position in script.outcomes of the invocation the loop is at
Handled == ToolUseCount(messages) - Len(tool_uses) + next_tool

\* the content of the tool result just appended
LastContent(results) == results[Len(results)].content

\* ---- DataAnalystAgent.run on the script
TwinRun == twin = "agent" /\ Run

TwinSendMessageReturns ==
    /\ twin = "agent"
    /\ pc = "loop"
    /\ LoopGuard(iteration, max_iterations)
    /\ ReceiveTurn(script.turns[iteration + 1])

TwinHandleExecuteCode ==
    /\ twin = "agent"
    /\ HandleExecuteCode
    /\ pc' = pc
    /\ LastContent(tool_results') = ExecuteCodeResponse(script.outcomes[Handled])

TwinAppendToolResults == twin = "agent" /\ AppendToolResults

TwinReturn == twin = "agent" /\ Return

\* app.py lines 126-131: the web loop starts on the same script with the
\* same budget; what run built is kept aside
StartWebLoop ==
    /\ twin = "agent"
    /\ pc = "returned"
    /\ twin' = "web"
    /\ agent_messages' = messages
    /\ agent_requests' = requests
    /\ messages' = <<InitialMessage>>
    /\ figures' = <<>>
    /\ iteration' = 0
    /\ final_summary' = NONE
    /\ response' = NoResponse
    /\ tool_uses' = <<>>
    /\ tool_results' = <<>>
    /\ next_tool' = 1
    /\ pc' = "loop"
    /\ ret' = NONE
    /\ requests' = <<>>
    /\ presenter' = <<>>
    /\ UNCHANGED <<max_iterations, script>>
    /\ UNCHANGED <<execVars, llmVars, rateVars>>

\* ---- the web loop on the script
TwinWebSendMessageReturns ==
    /\ twin = "web"
    /\ pc = "loop"
    /\ LoopGuard(iteration, max_iterations)
    /\ WebReceiveTurn(script.turns[iteration + 1])

TwinWebExecuteCode ==
    /\ twin = "web"
    /\ WebExecuteCode
    /\ pc' = pc
    /\ LastContent(tool_results') = WebExecuteCodeResponse(script.outcomes[Handled])

TwinWebAppendToolResults == twin = "web" /\ WebAppendToolResults

TwinWebLoopEnds == twin = "web" /\ WebLoopEnds

InitTwin ==
    /\ max_iterations \in 1..MaxBudget
    /\ AgentFresh
    /\ files = {}
    /\ ExecFresh
    /\ max_retries = DefaultMaxRetries
    /\ LLMFresh
    /\ RateFresh
    /\ script \in Scripts(max_iterations)
    /\ twin = "agent"
    /\ agent_messages = <<>>
    /\ agent_requests = <<>>

NextTwin ==
    \/ TwinRun
    \/ TwinSendMessageReturns
    \/ TwinHandleExecuteCode
    \/ TwinAppendToolResults
    \/ TwinReturn
    \/ StartWebLoop
    \/ TwinWebSendMessageReturns
    \/ TwinWebExecuteCode
    \/ TwinWebAppendToolResults
    \/ TwinWebLoopEnds

SpecTwin == InitTwin /\ [][NextTwin]_vars

\* ========================================= app.py: the rate limiter
MAX_QUERIES_PER_HOUR == 20

RATE_LIMIT_WINDOW_SECONDS == 3600

\* the last reading of time.time()
MaxClock == MaxHalfWindows * (RATE_LIMIT_WINDOW_SECONDS \div 2)

\* the seconds that pass between two readings of time.time()
TimeSteps == {RATE_LIMIT_WINDOW_SECONDS \div 2, RATE_LIMIT_WINDOW_SECONDS}

\* line 45: now - ts < RATE_LIMIT_WINDOW_SECONDS
InWindow(now, ts) == now - ts < RATE_LIMIT_WINDOW_SECONDS

\* lines 43-46: the list comprehension of check_rate_limit
Pruned(timestamps, now) == SelectSeq(timestamps, LAMBDA ts : InWindow(now, ts))

HasCapacityInclusive(timestamps) == Len(timestamps) <= MAX_QUERIES_PER_HOUR

\* line 47: len(st.session_state.query_timestamps) < MAX_QUERIES_PER_HOUR
HasCapacity(timestamps) == Len(timestamps) < MAX_QUERIES_PER_HOUR

\* time passes between two steps of the script
TimePasses ==
    /\ \E d \in TimeSteps :
          /\ clock + d <= MaxClock
          /\ clock' = clock + d
    /\ UNCHANGED <<query_timestamps, recorded, analyses, rpc>>
    /\ UNCHANGED <<agentVars, execVars, llmVars, twinVars>>

\* lines 84-89 with check_rate_limit (39-47): Analyze is pressed; the
\* script goes on when the check allows it and stops in st.stop() otherwise
CheckRateLimit ==
    /\ rpc \in {"idle", "stopped"}
    /\ query_timestamps' = Pruned(query_timestamps, clock)
    /\ rpc' = IF HasCapacity(query_timestamps') THEN "admitted" ELSE "stopped"
    /\ UNCHANGED <<clock, recorded, analyses>>
    /\ UNCHANGED <<agentVars, execVars, llmVars, twinVars>>

\* lines 92-93 with record_query (50-52); the analysis follows (lines 96-226)
RecordQuery ==
    /\ rpc = "admitted"
    /\ query_timestamps' = Append(query_timestamps, clock)
    /\ recorded' = Append(recorded, clock)
    /\ analyses' = analyses + 1
    /\ rpc' = "idle"
    /\ UNCHANGED clock
    /\ UNCHANGED <<agentVars, execVars, llmVars, twinVars>>

InitRate ==
    /\ max_iterations = 0
    /\ AgentFresh
    /\ files = {}
    /\ ExecFresh
    /\ max_retries = DefaultMaxRetries
    /\ LLMFresh
    /\ RateFresh
    /\ TwinFresh

NextRate ==
    \/ TimePasses
    \/ CheckRateLimit
    \/ RecordQuery

SpecRate == InitRate /\ [][NextRate]_vars

\* ===================================================== properties: agent.py
HasTool(msg, name) ==
    \E u \in 1..Len(msg.tool_use) : msg.tool_use[u].name = name

\* the assistant turn at position i is answered by the turn after it
AnsweredTurn(i) ==
    /\ i < Len(messages)
    /\ messages[i + 1].role = "user"
    /\ Len(messages[i + 1].tool_result) = Len(messages[i].tool_use)
    /\ \A u \in 1..Len(messages[i].tool_use) :
          Cardinality({j \in 1..Len(messages[i + 1].tool_result) :
              messages[i + 1].tool_result[j].tool_use_id = messages[i].tool_use[u].id}) = 1
    /\ \A j \in 1..Len(messages[i + 1].tool_result) :
          \E u \in 1..Len(messages[i].tool_use) :
              messages[i + 1].tool_result[j].tool_use_id = messages[i].tool_use[u].id

\* C1: whenever run is about to call send_message, and when it has returned,
\* every assistant turn of the conversation is immediately followed by a user
\* turn holding exactly one tool result per tool invocation of that turn,
\* with matching tool_use_id, and no tool result for any other id.
C1_ToolResultProtocol ==
    pc \in {"loop", "post", "returned"} =>
        \A i \in 1..Len(messages) :
            messages[i].role = "assistant" => AnsweredTurn(i)

\* a returned run whose last turn held present_results followed by another
\* invocation, all of them answered
C1_Witness ==
    /\ pc = "returned"
    /\ Len(messages) = 5
    /\ Len(messages[4].tool_use) = 2
    /\ messages[4].tool_use[1].name = "present_results"
    /\ messages[4].tool_use[2].name = "execute_code"
    /\ Len(messages[5].tool_result) = 2

\* C2: run never propagates an exception to its caller.
C2_RunNeverRaises == pc # "raised"

\* a turn containing present_results is in the conversation of this run
PresentSeen == \E i \in 1..Len(messages) : HasTool(messages[i], "present_results")

\* C3: once a model turn containing a present_results invocation has been
\* received and processed, run issues no further send_message request; a
\* present_results on the first turn means exactly one request.
C3_PresentEndsRun ==
    /\ [][PresentSeen => requests' = requests]_vars
    /\ []((Len(messages) >= 2 /\ HasTool(messages[2], "present_results"))
            => Len(requests) = 1)

\* a first turn presenting results with an empty or missing summary ended the
\* run after one request
C3_Witness ==
    /\ pc = "returned"
    /\ Len(messages) = 3
    /\ Len(messages[2].tool_use) = 1
    /\ messages[2].tool_use[1].name = "present_results"
    /\ messages[2].tool_use[1].input.summary \in {"", MISSING}
    /\ Len(requests) = 1

\* every request returned a turn, and every turn requested execute_code only
AllTurnsExecuteCode ==
    /\ \A i \in 1..Len(requests) : requests[i] = "turn"
    /\ Cardinality({i \in 1..Len(messages) : messages[i].role = "assistant"})
         = Len(requests)
    /\ \A i \in 1..Len(messages) :
          messages[i].role = "assistant" =>
              /\ messages[i].tool_use # <<>>
              /\ \A u \in 1..Len(messages[i].tool_use) :
                    messages[i].tool_use[u].name = "execute_code"

ClientFailed == \E i \in 1..Len(requests) : requests[i] = "raise"

\* C5: when send_message raised, run ends with the client-failure outcome:
\* show_error was called and the returned string is the fixed error
\* placeholder, never the budget-exhausted one.
C5_ClientFailureOutcome ==
    (pc = "returned" /\ ClientFailed) =>
        /\ Shown("show_error")
        /\ ret = "No results generated."

\* C6: the budget warning is shown only when the counter reached
\* max_iterations with every request having returned a turn and neither
\* natural completion nor present_results having occurred; no run shows both
\* an error and the budget warning.
C6_WarningOnlyOnBudget ==
    /\ Shown("show_warning") =>
          /\ iteration = max_iterations
          /\ ~ClientFailed
          /\ ~PresentSeen
          /\ ~(Len(requests) > 0 /\ NaturalCompletion(response.content, response))
    /\ ~(Shown("show_error") /\ Shown("show_warning"))

\* the run ended after a turn that contained present_results
EndedByPresent ==
    /\ pc = "returned"
    /\ Len(messages) >= 3
    /\ HasTool(messages[Len(messages) - 1], "present_results")

\* the summary key of the last present_results invocation of a turn
LastPresentSummary(msg) ==
    LET last == CHOOSE u \in 1..Len(msg.tool_use) :
                    /\ msg.tool_use[u].name = "present_results"
                    /\ \A v \in (u + 1)..Len(msg.tool_use) :
                          msg.tool_use[v].name # "present_results"
    IN  msg.tool_use[last].input.summary

\* C7 as stated: a run ended by present_results returns that invocation's
\* summary argument, for every summary value including the empty string.
C7_ReturnsSummaryArgument ==
    EndedByPresent =>
        LET s == LastPresentSummary(messages[Len(messages) - 1])
        IN  ret = (IF s = MISSING THEN "" ELSE s)

\* C7 amended: a run ended by present_results returns the summary argument of
\* the last present_results invocation of the turn when that summary is a
\* non-empty string, and 'No results generated.' when it is empty or missing.
C7_ReturnsSummaryOrPlaceholder ==
    EndedByPresent =>
        LET s == LastPresentSummary(messages[Len(messages) - 1])
        IN  ret = (IF s \in {MISSING, ""} THEN "No results generated." ELSE s)

\* a run ended by present_results returned the summary it was given
C7_Witness ==
    /\ EndedByPresent
    /\ LastPresentSummary(messages[Len(messages) - 1]) = "Findings"
    /\ ret = "Findings"

\* the last request returned a turn without tool invocations and 'end_turn'
NaturalReceived ==
    /\ Len(requests) > 0
    /\ requests[Len(requests)] = "turn"
    /\ response.content = <<>>
    /\ response.stop_reason = "end_turn"

ToolCallsShown ==
    {i \in 1..Len(presenter) :
        presenter[i].call \in {"show_code_execution", "show_question", "show_results"}}

\* C8: a turn with no tool invocation and stop_reason 'end_turn' ends the run
\* at once: nothing is appended to the conversation for it, no tool call is
\* routed, no further request is made, and run returns the turn's text, or
\* 'Analysis complete.' when the text is empty.
C8_NaturalCompletion ==
    /\ [][NaturalReceived' =>
            /\ messages' = messages
            /\ figures' = figures
            /\ tool_results' = tool_results
            /\ ToolCallsShown' = ToolCallsShown
            /\ (NaturalReceived => requests' = requests)]_vars
    /\ [](NaturalReceived =>
            /\ pc \in {"post", "returned"}
            /\ (pc = "returned" =>
                  ret = (IF response.text # "" THEN response.text
                         ELSE "Analysis complete.")))

\* after a tool turn, a turn with empty text completed the run
C8_Witness ==
    /\ pc = "returned"
    /\ NaturalReceived
    /\ response.text = ""
    /\ Len(requests) = 2
    /\ Len(messages) = 3
    /\ ret = "Analysis complete."

\* C9: every return of run yields a non-empty string, never None.
C9_ReturnsNonEmptyString ==
    pc = "returned" => (ret # NONE /\ ret # "")

\* a run ended by a present_results whose summary is empty
C9_Witness ==
    /\ EndedByPresent
    /\ final_summary = ""
    /\ ret = "No results generated."
\* ================================================= properties: executor.py
\* the worker has reached a statement that never completes
WorkerNeverFinishes ==
    /\ future = "running"
    /\ ~Unparsable(code)
    /\ worker_ip <= Len(code)
    /\ code[worker_ip] = "while True"

\* C10: once the timeout has elapsed execute returns without waiting for the
\* worker: the calling thread is never left waiting, after the timeout, for a
\* worker whose snippet never terminates.
C10_ReturnsAtTimeout ==
    epc = "shutdown" => ~WorkerNeverFinishes

\* C11: a call whose timeout elapsed returns success = false and, as output,
\* exactly the text that had been written when the timeout elapsed; nothing
\* printed after that moment is part of the returned output.
C11_OutputAtTimeout ==
    (epc = "returned" /\ at_timeout.elapsed) =>
        /\ result.success = FALSE
        /\ result.output = at_timeout.output

\* the snippet has a statement that faults or never finishes
Faulty(snippet) ==
    \/ Unparsable(snippet)
    \/ \E i \in 1..Len(snippet) :
          snippet[i] \in {"raise ValueError", "sys.exit", "while True"}

\* C12: execute never raises to its caller; a snippet that raises at run
\* time, does not parse or exceeds the timeout is answered with a result
\* whose success is false and whose error is not empty.
C12_FaultsAreReturned ==
    /\ epc # "raised"
    /\ (epc = "returned" /\ (Faulty(code) \/ at_timeout.elapsed)) =>
           (result.success = FALSE /\ result.error \notin {NONE, ""})

C14_DatasetIsolation ==
    /\ [](df = "loaded")
    /\ [][calls' # calls => namespace_df'.shape = "loaded"]_vars

\* a second execution has changed its own df in place and returned
C14_Witness ==
    /\ calls = 2
    /\ epc = "returned"
    /\ namespace_df.shape = "dropped"
    /\ df = "loaded"

\* the snippet writes output/plot.png and no other file
WritesPlot(snippet) ==
    /\ ~Faulty(snippet)
    /\ \E i \in 1..Len(snippet) : snippet[i] = "plt.savefig"

\* C15: a successful snippet that writes exactly one new file into the
\* artifact directory yields a figures list holding exactly that file's
\* path, whatever files were in the directory before the call.
C15_OneNewFileOnePath ==
    (/\ epc = "returned"
     /\ result.success = TRUE
     /\ WritesPlot(code)
     /\ Path("plot", 0) \notin figures_before) =>
        result.figures = <<Path("plot", 0)>>

\* C16: a successful snippet that leaves a figure open and never calls
\* savefig yields at least one artifact path, whatever files the output
\* directory held before.
C16_AutoSaveYieldsArtifact ==
    [][(/\ epc = "result"
        /\ epc' = "returned"
        /\ result'.success = TRUE
        /\ fignums # {}
        /\ \A i \in 1..Len(code) : code[i] # "plt.savefig") =>
           result'.figures # <<>>]_vars

\* the snippet creates one figure and saves it once to output/plot.png,
\* closing it afterwards or not
OneFigureSavedOnce(snippet) ==
    snippet \in {<<"plt.savefig">>,
                 <<"plt.figure", "plt.savefig">>,
                 <<"plt.savefig", "plt.close">>,
                 <<"plt.figure", "plt.savefig", "plt.close">>}

\* C17: a snippet that creates one figure and saves it explicitly to one new
\* path yields exactly one artifact, that path, whether or not it closes the
\* figure afterwards.
C17_ExplicitSaveOneArtifact ==
    (/\ epc = "returned"
     /\ result.success = TRUE
     /\ OneFigureSavedOnce(code)
     /\ Path("plot", 0) \notin figures_before) =>
        Len(result.figures) = 1 /\ result.figures[1] = Path("plot", 0)

\* ===================================================== properties: llm.py
\* the first k messages.create calls of this send_message call failed with
\* an error the except clauses catch
AllTransient(k) == \A i \in 1..k : create_calls[i] \in TransientErrors

\* C18: when messages.create fails transiently K times in a row, K below
\* max_retries, and then succeeds, send_message makes exactly K + 1 calls
\* and returns the response of the last one: it has not given up after the
\* K failures, and it makes no call after the success.
C18_RetryThenSuccess ==
    /\ (/\ lpc # "idle"
        /\ Len(create_calls) < max_retries
        /\ AllTransient(Len(create_calls))) => lpc = "loop"
    /\ \A k \in 0..(Len(create_calls) - 1) :
          (/\ k < max_retries
           /\ AllTransient(k)
           /\ create_calls[k + 1] \in Responses) =>
              /\ Len(create_calls) = k + 1
              /\ lpc = "returned"
              /\ sent = create_calls[k + 1]

\* two transient failures, then a response, returned from the third call
C18_Witness ==
    /\ lpc = "returned"
    /\ Len(create_calls) = 3
    /\ AllTransient(2)
    /\ sent \in Responses
    /\ sent = create_calls[3]

\* send_message alone: when every messages.create call failed transiently
\* and the call is over, max_retries calls were made and the last error
\* was raised (holds under SpecLLM)
ExhaustionRaisesLast ==
    (/\ lpc \in {"returned", "raised"}
     /\ Len(create_calls) >= 1
     /\ AllTransient(Len(create_calls))) =>
        /\ Len(create_calls) = max_retries
        /\ lpc = "raised"
        /\ sent = create_calls[Len(create_calls)]

\* C19: when send_message has raised after its retries, run makes no
\* further request and ends with the client-failure outcome: the error is
\* reported, the budget warning is not, and the fixed error placeholder is
\* returned.
C19_ExhaustionEndsRun ==
    /\ ClientFailed => requests[Len(requests)] = "raise"
    /\ (pc = "returned" /\ ClientFailed) =>
           /\ Shown("show_error")
           /\ ~Shown("show_warning")
           /\ ret = "No results generated."

\* the messages.create calls of this send_message call that failed with a
\* transient error
FailedAttempts == {i \in 1..Len(create_calls) : create_calls[i] \in TransientErrors}

\* the call ended by raising the error of its last messages.create call
RaisedLast ==
    /\ lpc = "raised"
    /\ Len(create_calls) >= 1
    /\ create_calls[Len(create_calls)] \in TransientErrors

\* C20: the waits of one send_message call are 1, 2, 4, ...: the first is 1
\* and each later one is twice the one before; there is one wait per failed
\* attempt, except that the failed attempt whose error is raised has none,
\* and a success has none.
C20_BackoffDoubles ==
    /\ Len(sleeps) >= 1 => sleeps[1] = 1
    /\ \A i \in 1..(Len(sleeps) - 1) : sleeps[i + 1] = 2 * sleeps[i]
    /\ Len(sleeps) = Cardinality(FailedAttempts) - (IF RaisedLast THEN 1 ELSE 0)

\* four failed attempts with max_retries = 4: waits 1, 2, 4 and no wait
\* before the raise
C20_Witness ==
    /\ RaisedLast
    /\ Cardinality(FailedAttempts) = 4
    /\ sleeps = <<1, 2, 4>>

\* ============================================= properties: agent.py, part 2
KnownTools == {"execute_code", "ask_clarifying_question", "present_results"}

\* what _handle_execute_code returns for a failed execution
FailedExecution(content) ==
    \E r \in ExecutionResults : ~r.success /\ content = ExecuteCodeResponse(r)

\* the run stopped requesting right after the turn answered by the last
\* message
StoppedAfterLastTurn ==
    /\ pc \in {"post", "returned"}
    /\ Len(messages) >= 3
    /\ messages[Len(messages)].role = "user"
    /\ 2 * Len(requests) + 1 = Len(messages)

ErrorFlagged(msg) ==
    \E u \in 1..Len(msg.tool_result) : msg.tool_result[u].is_error

\* C21: a tool result is flagged is_error exactly when it answers an
\* execute_code invocation whose execution failed or an invocation of an
\* unrecognized tool; and a run that stopped right after a turn with a
\* flagged result and without present_results has used up its budget.
C21_ErrorFlagging ==
    /\ \A i \in 1..Len(messages) :
          AnsweredTurn(i) =>
             \A u \in 1..Len(messages[i].tool_use) :
                LET use == messages[i].tool_use[u]
                    res == messages[i + 1].tool_result[u]
                IN  res.is_error <=>
                       \/ use.name \notin KnownTools
                       \/ use.name = "execute_code" /\ FailedExecution(res.content)
    /\ (/\ StoppedAfterLastTurn
        /\ ErrorFlagged(messages[Len(messages)])
        /\ ~HasTool(messages[Len(messages) - 1], "present_results")) =>
           iteration >= max_iterations

\* after a turn whose two invocations were both answered with flagged
\* results, one for a failed execution and one for an unknown tool, a
\* further request was made
C21_Witness ==
    /\ Len(messages) >= 3
    /\ Len(messages[2].tool_use) = 2
    /\ messages[2].tool_use[1].name = "execute_code"
    /\ messages[2].tool_use[2].name \notin KnownTools
    /\ messages[3].tool_result[1].is_error
    /\ messages[3].tool_result[2].is_error
    /\ Len(requests) = 2

\* the position of the initial message of the current run
RunStart ==
    CHOOSE i \in 1..Len(messages) :
        /\ messages[i] = InitialMessage
        /\ \A j \in (i + 1)..Len(messages) : messages[j] # InitialMessage

\* the paths a tool result reports after "Generated figures: "
ReportedFigures(res) ==
    IF /\ Len(res.content) >= 2
       /\ res.content[Len(res.content) - 1] = "\n\nGenerated figures: "
    THEN {res.content[Len(res.content)]}
    ELSE {}

\* the artifact paths the executions of the current run have reported so
\* far: in the answered turns of the run and in the turn being processed
CurrentRunArtifacts ==
    UNION {UNION {ReportedFigures(messages[i].tool_result[u]) :
                     u \in 1..Len(messages[i].tool_result)} :
              i \in RunStart..Len(messages)}
    \cup UNION {ReportedFigures(tool_results[u]) : u \in 1..Len(tool_results)}

\* _handle_present_results has just returned for tool_uses[next_tool - 1]
JustPresented ==
    /\ pc = "tools"
    /\ next_tool > 1
    /\ tool_uses[next_tool - 1].name = "present_results"

\* C22: the figure paths forwarded to show_results are the visualizations
\* argument together with the artifact paths the executions of the current
\* run have reported so far, and nothing else: no path that only an earlier
\* run of the same agent produced.
C22_ForwardedFigures ==
    JustPresented =>
        LET shown == presenter[Len(presenter)]
            visualizations == GetVisualizations(tool_uses[next_tool - 1].input)
        IN  /\ shown.call = "show_results"
            /\ shown.figures = SeqToSet(visualizations.items) \cup CurrentRunArtifacts

\* C23: while the dataset is not loaded there is no instance to run: no
\* request to the model has been made and no code has been executed, and a
\* constructor that raised leaves nothing that can start a run.
C23_NoRunWithoutDataset ==
    df # "loaded" =>
        /\ pc \in {"new", "failed"}
        /\ epc \in {"new", "failed"}
        /\ requests = <<>>
        /\ messages = <<>>
        /\ calls = 0
        /\ ~Shown("show_code_execution")

\* the constructor raised on an unreadable dataset
C23_Witness ==
    /\ pc = "failed"
    /\ epc = "failed"
    /\ df = "unassigned"

\* ============================================ properties: executor.py, part 2
\* C24: a worker starts only when an execute call starts, one per call, and
\* at that moment the worker of the call before, timed out or not, is no
\* longer running.
C24_OneWorkerAtATime ==
    [][/\ calls' # calls =>
             (calls' = calls + 1 /\ future # "running" /\ future' = "running")
       /\ (future # "running" /\ future' = "running") => calls' = calls + 1]_vars

\* the worker of a second call runs after a first call that timed out
C24_Witness ==
    /\ calls = 2
    /\ epc = "result"
    /\ future = "running"
    /\ worker_ip = 2
    /\ result.error = "Timeout"

\* the calling thread is outside execute
Outside == epc \in {"idle", "returned", "raised"}

\* C27: no figure is open when a snippet starts to run, and none is open
\* when execute has returned or raised, whatever the outcome; so the
\* figures a call auto-saves are figures its own snippet opened.
C27_CanvasReset ==
    /\ Outside => fignums = {}
    /\ (future = "running" /\ worker_ip = 1) => fignums = {}

\* a call that failed at run time with a figure open has returned
C27_Witness ==
    /\ epc = "returned"
    /\ code = <<"plt.figure", "raise ValueError">>
    /\ result.success = FALSE
    /\ fignums = {}
    /\ calls < MaxCalls

\* the step is the normal completion of a call
CompletesNormally ==
    /\ epc = "result"
    /\ epc' = "returned"
    /\ result'.success = TRUE

\* C28: the auto-save counter never decreases; it changes only when a call
\* completes normally with figures open; and the figure_<n>.png files of
\* such a call have n above the counter as it was before the call, up to
\* the counter after it, so above every n this executor used before.
C28_CounterMonotonic ==
    [][/\ figure_counter' >= figure_counter
       /\ figure_counter' # figure_counter => (CompletesNormally /\ fignums # {})
       /\ CompletesNormally =>
             /\ figure_counter' = figure_counter + Cardinality(fignums)
             /\ \A p \in files' \ files :
                   (p.n > figure_counter /\ p.n <= figure_counter')
             /\ \A i \in 1..Len(result'.figures) :
                   result'.figures[i].name = "figure" =>
                      (/\ result'.figures[i].n > figure_counter
                       /\ result'.figures[i].n <= figure_counter')]_vars

\* a second call has auto-saved after a first one did
C28_Witness ==
    /\ epc = "returned"
    /\ calls = 2
    /\ figure_counter = 2
    /\ result.success = TRUE
    /\ Path("figure", 2) \in SeqToSet(result.figures)

PairsAfterInitial(k) ==
    /\ Len(messages) = 1 + 2 * k
    /\ messages[1] = InitialMessage
    /\ \A j \in 1..k :
          /\ messages[2 * j].role = "assistant"
          /\ messages[2 * j + 1].role = "user"

\* the last iteration ended the run without processing tools
EndedWithoutTools ==
    /\ Len(requests) >= 1
    /\ \/ requests[Len(requests)] = "raise"
       \/ NaturalCompletion(response.content, response)

PresentProcessed ==
    \E i \in 1..(Len(messages) - 1) : HasTool(messages[i], "present_results")

\* C25: in the web loop, once a present_results invocation has been
\* processed no further send_message request is made for the query.
C25_WebPresentEndsQuery ==
    [][PresentProcessed => requests' = requests]_vars

\* C26: in the web loop, whenever the next request is about to be made or
\* the loop is over, every assistant turn is followed by a user turn with
\* exactly one tool result for each of its invocations, whatever their
\* names and their order.
C26_WebToolResultProtocol ==
    pc \in {"loop", "done", "error"} =>
        \A i \in 1..Len(messages) :
            messages[i].role = "assistant" => AnsweredTurn(i)

\* roles alternate, the first and the last turn being user turns
Alternates(msgs) ==
    /\ Len(msgs) > 0
    /\ msgs[1].role = "user"
    /\ msgs[Len(msgs)].role = "user"
    /\ \A i \in 1..(Len(msgs) - 1) : msgs[i].role # msgs[i + 1].role

\* the loop is about to call send_message with self.messages (lines 58-61)
AboutToSend == pc = "loop" /\ LoopGuard(iteration, max_iterations)

\* C33: the conversation handed to every send_message call alternates
\* user and assistant turns, beginning and ending with a user turn, for
\* any sequence of run calls on one agent
C33_ConversationAlternates == AboutToSend => Alternates(messages)

\* C34: run never appends a user turn with an empty list of tool results:
\* every user turn after the initial one holds at least one tool result,
\* also after a model turn without tool invocation whose stop reason is
\* not 'end_turn'
C34_NoEmptyUserTurn ==
    \A i \in 2..Len(messages) :
        messages[i].role = "user" => Len(messages[i].tool_result) >= 1

\* the show_results calls made on the display collaborator
Presentations == {i \in 1..Len(presenter) : presenter[i].call = "show_results"}

\* C37: in one run show_results is called at most once and the returned
\* summary is the presented one, also when one model turn holds several
\* present_results invocations
C37_PresentedOnce ==
    /\ Cardinality(Presentations) <= 1
    /\ pc = "returned" =>
          \A i \in Presentations : ret = presenter[i].text

\* C36: for every max_retries value, zero and negative included,
\* send_message either returns a response obtained from an API attempt or
\* raises; it never returns without a response after making no attempt
C36_ReturnsAResponse ==
    lpc = "returned" =>
        /\ sent \in Responses
        /\ Len(create_calls) >= 1
        /\ create_calls[Len(create_calls)] = sent

\* C35: every file that appeared in the artifact directory during a call
\* is listed in the figures of the call's ExecutionResult, whatever the
\* outcome of the call
C35_NewFilesAreReported ==
    epc = "returned" =>
        (files \ figures_before) \subseteq SeqToSet(result.figures)

\* the statements before position k run without fault and without end
RunsUpTo(snippet, k) ==
    \A j \in 1..(k - 1) : snippet[j] \notin {"raise ValueError", "while True"}

\* statement i of the snippet reads x and no earlier statement of the same
\* snippet binds it
ReadsUnbound(snippet, i) ==
    /\ snippet[i] = "print(x)"
    /\ \A j \in 1..(i - 1) : snippet[j] # "x = 1"

\* the pieces the first k - 1 statements of the snippet print
Printed(snippet, k) ==
    Cardinality({i \in 1..(k - 1) :
        /\ i <= Len(snippet)
        /\ RunsUpTo(snippet, i)
        /\ \A j \in 1..(i - 1) : ~ReadsUnbound(snippet, j)
        /\ \/ snippet[i] = "print"
           \/ snippet[i] = "print(x)" /\ ~ReadsUnbound(snippet, i)})

\* C31: every execute call runs its snippet in a fresh namespace and with
\* its own output buffer: a read of a name the snippet itself has not bound
\* fails with NameError whatever earlier snippets bound, and the buffered
\* and the returned output hold exactly what the statements of this call's
\* snippet printed
C31_FreshNamespace ==
    /\ \A i \in 1..Len(code) :
          ReadsUnbound(code, i) /\ worker_ip > i /\ RunsUpTo(code, i)
              => result_container = "NameError"
    /\ Len(stdout_buffer) = Printed(code, worker_ip)
    /\ epc = "returned" => result.output = stdout_buffer

\* the first call bound x and printed it; the second call's snippet reads x
\* and the read failed
C31_Witness ==
    /\ calls = 2
    /\ result.output = <<"1">>
    /\ epc = "result"
    /\ code = <<"print(x)">>
    /\ result_container = "NameError"

\* the recorded timestamps inside the window of RATE_LIMIT_WINDOW_SECONDS
\* seconds that ends at time t
Within(t) == {i \in 1..Len(recorded) : InWindow(t, recorded[i]) /\ recorded[i] <= t}

\* C32: a request is recorded only if fewer than MAX_QUERIES_PER_HOUR
\* recorded timestamps lie within the preceding window; no window of
\* RATE_LIMIT_WINDOW_SECONDS seconds ever holds more than
\* MAX_QUERIES_PER_HOUR recorded timestamps (a window holds the most when
\* it ends at one of the timestamps or now); a rejected request records no
\* timestamp and starts no analysis
C32_RateLimit ==
    /\ [](\A t \in SeqToSet(recorded) \cup {clock} :
             Cardinality(Within(t)) <= MAX_QUERIES_PER_HOUR)
    /\ [](analyses = Len(recorded))
    /\ [][recorded' # recorded =>
             /\ Cardinality(Within(clock)) < MAX_QUERIES_PER_HOUR
             /\ recorded' = Append(recorded, clock)]_vars
    /\ [][rpc = "stopped" \/ rpc' = "stopped" =>
             recorded' = recorded /\ analyses' = analyses]_vars

\* the window is full and a request has been rejected
C32_Witness ==
    /\ rpc = "stopped"
    /\ Cardinality(Within(clock)) = MAX_QUERIES_PER_HOUR
    /\ Len(recorded) > MAX_QUERIES_PER_HOUR

\* the roles, tool_use ids and tool result ids and flags of a conversation
Shape(msgs) ==
    [i \in 1..Len(msgs) |->
        [role |-> msgs[i].role,
         ids |-> [u \in 1..Len(msgs[i].tool_use) |-> msgs[i].tool_use[u].id],
         results |-> [k \in 1..Len(msgs[i].tool_result) |->
                         [tool_use_id |-> msgs[i].tool_result[k].tool_use_id,
                          is_error |-> msgs[i].tool_result[k].is_error]]]]

\* C38: with the same budget, the same model turns holding only
\* execute_code invocations, the same execution outcomes and no client
\* failure, the web loop makes as many requests as run did and builds a
\* conversation with the same roles, tool_use ids and is_error flags
C38_LoopsAgree ==
    twin = "web" /\ pc = "done" =>
        /\ Len(requests) = Len(agent_requests)
        /\ Shape(messages) = Shape(agent_messages)

\* both loops played a script of two turns in which one execution failed
\* and one succeeded
C38_Witness ==
    /\ twin = "web"
    /\ pc = "done"
    /\ Len(agent_requests) = 2
    /\ Len(messages) = 5
    /\ \E i, j \in 1..Len(messages) :
          /\ \E k \in 1..Len(messages[i].tool_result) :
                messages[i].tool_result[k].is_error
          /\ \E k \in 1..Len(messages[j].tool_result) :
                ~messages[j].tool_result[k].is_error
====
